---- MODULE Spec2Model ----
(***************************************************************************)
(* Model of the directory organizer src/exercises/clear_the_clutter/main.js *)
(* and, further down, of the Express app of src/BackEnd/3_expressJS, the    *)
(* React counter of src/unnamed/part_002, the note-taking API of            *)
(* src/3_expressJS/note_taking_api and the dummy-data generator of          *)
(* src/exercises/dummyData.                                                 *)
(* The script lists <__dirname>/files once and, for every listed name,      *)
(* moves the entry into the sub-directory named by its extension.           *)
(*                                                                          *)
(* A file name is a sequence of one-character strings, a path is a sequence *)
(* of names relative to fullPath (so fullPath itself is <<>>), and the file *)
(* system is a function from the existing paths to their nodes.             *)
(***************************************************************************)
EXTENDS Naturals, Sequences, FiniteSets, TLC

VARIABLES
  fs,        \* the file-system namespace at and under fullPath
  pc,        \* "start" | "loop" | "done" | "aborted" : position of the script
  files,     \* const files = fs.readdirSync(fullPath)
  idx,       \* 1-based position of forEach in files
  log,       \* console output of the current run
  ops,       \* fs calls made by the current run, in order
  run,       \* number of the current invocation of the script
  faults,    \* environment failures (EACCES) injected so far
  fsAtScan,  \* the file system as it was when the current run started
  req,       \* Express app: the request now in the middleware chain
  logsTxt,   \* Express app: the lines of logs.txt
  sent,      \* Express app: the responses sent, in order
  arrived,   \* Express app: number of requests received so far
  hook,      \* React counter: the state kept by useState
  value,     \* React counter: value of the last render (shown, and in its closure)
  queue,     \* React counter: state updates not yet rendered
  clicks,    \* React counter: clicks handled so far
  screen,    \* React counter: the values displayed so far, in order
  disk,      \* notes API: the files of the working directory and their content
  calls,     \* notes API: the requests received, each with the state of its fs call
  replies,   \* notes API: the responses sent, in order
  overlap,   \* notes API: a request was received while another was unanswered
  employees, \* dummy data: the documents of the Employee collection, in order
  gens,      \* dummy data: the GET /generate requests received and how far each is
  together   \* dummy data: a request was received while another was unanswered

vars ==
  <<fs, pc, files, idx, log, ops, run, faults, fsAtScan, req, logsTxt, sent, arrived,
    hook, value, queue, clicks, screen, disk, calls, replies, overlap,
    employees, gens, together>>

\* the state of the organizer script, of the Express app and of the React counter
scriptVars == <<fs, pc, files, idx, log, ops, run, faults, fsAtScan>>
webVars == <<req, logsTxt, sent, arrived>>
reactVars == <<hook, value, queue, clicks, screen>>
notesVars == <<disk, calls, replies, overlap>>
dummyVars == <<employees, gens, together>>

\* what a step of one program leaves alone: the state of the other programs
otherThanScript == <<webVars, reactVars, notesVars, dummyVars>>
otherThanWeb == <<scriptVars, reactVars, notesVars, dummyVars>>
otherThanReact == <<scriptVars, webVars, notesVars, dummyVars>>
otherThanNotes == <<scriptVars, webVars, reactVars, dummyVars>>
otherThanDummy == <<scriptVars, webVars, reactVars, notesVars>>

(***************************************************************************)
(* Bounds                                                                   *)
(***************************************************************************)
MaxEntries == 3   \* top-level entries of the starting directory
MaxFaults == 1    \* environment failures over all runs
MaxRuns == 2      \* invocations of the script
MaxRequests == 3  \* requests received by the Express app
MaxNotes == 3     \* requests received by the notes API
MaxGenerate == 2  \* GET /generate requests received by the dummy-data app
MaxClicks == 8    \* clicks on the button of the React counter

(***************************************************************************)
(* File names                                                               *)
(***************************************************************************)
aTxt == <<"a", ".", "t", "x", "t">>
bTXT == <<"b", ".", "T", "X", "T">>
txt == <<"t", "x", "t">>
README == <<"R", "E", "A", "D", "M", "E">>
dotEnv == <<".", "e", "n", "v">>
cDot == <<"c", ".">>

bJpg == <<"b", ".", "j", "p", "g">>
cTxt == <<"c", ".", "t", "x", "t">>
notes == <<"n", "o", "t", "e", "s">>
jpg == <<"j", "p", "g">>

\* const fullPath = path.join(__dirname, 'files')
fullPath == <<>>

(***************************************************************************)
(* path.extname, String.prototype.slice(1), path.join                       *)
(***************************************************************************)
Max(S) == CHOOSE x \in S : \A y \in S : y <= x
Min(S) == CHOOSE x \in S : \A y \in S : x <= y

\* index of the last "." of a name, 0 when it has none (startDot)
LastDot(s) == Max({0} \cup {i \in 1..Len(s) : s[i] = "."})

\* path.extname(file): from the last "." to the end; empty when there is no
\* dot, when the only dot is the first character, and for "..".
extname(s) ==
  LET d == LastDot(s)
  IN IF d = 0 \/ d = 1 \/ s = <<".", ".">> THEN <<>> ELSE SubSeq(s, d, Len(s))

slice1(s) == SubSeq(s, 2, Len(s))

\* A plausible slip: file.slice(1) in place of path.extname(file).slice(1).
extNameOfWholeName(file) == slice1(file)

\* let extName = path.extname(file).slice(1)
extName(file) == slice1(extname(file))

\* A plausible slip: the paths are concatenated, so an empty segment is kept.
joinPathKeepsEmpty(p, name) == Append(p, name)

\* path.join(p, name): an empty segment is dropped
joinPath(p, name) == IF name = <<>> THEN p ELSE Append(p, name)

(***************************************************************************)
(* The file system                                                          *)
(***************************************************************************)
IsPrefix(p, q) == Len(p) <= Len(q) /\ SubSeq(q, 1, Len(p)) = p
Parent(p) == SubSeq(p, 1, Len(p) - 1)
Base(p) == p[Len(p)]

FileNode(p) == [kind |-> "file", id |-> p, made |-> FALSE]
DirNode(p) == [kind |-> "dir", id |-> p, made |-> FALSE]
MadeNode(p) == [kind |-> "dir", id |-> p, made |-> TRUE]

IsDir(f, p) == p \in DOMAIN f /\ f[p].kind = "dir"
IsFile(f, p) == p \in DOMAIN f /\ f[p].kind = "file"
Children(f, p) == {q \in DOMAIN f : Len(q) = Len(p) + 1 /\ IsPrefix(p, q)}
Under(f, p) == {q \in DOMAIN f : IsPrefix(p, q)}

\* A plausible slip: the check asks whether the path is a regular file.
existsOnlyFiles(f, p) == IsFile(f, p)

\* fs.existsSync(p)
existsSync(f, p) == p \in DOMAIN f

Prefixes(p) == {SubSeq(p, 1, n) : n \in 0..Len(p)}

\* fs.mkdirSync(p, {recursive: true}): the error it throws, "OK" for none
MkdirError(f, p) ==
  IF \E q \in Prefixes(p) \ {p} : IsFile(f, q) THEN "ENOTDIR"
  ELSE IF IsFile(f, p) THEN "EEXIST"
  ELSE "OK"

\* A plausible slip: the mkdirSync call is left out of the else branch.
MkdirResultMakesNothing(f, p) == f

\* fs.mkdirSync(p, {recursive: true}): the file system after a successful call
MkdirResult(f, p) ==
  LET New == Prefixes(p) \ DOMAIN f
  IN [q \in DOMAIN f \cup New |-> IF q \in DOMAIN f THEN f[q] ELSE MadeNode(q)]

\* fs.renameSync(src, dst), rename(2): the error it throws, "OK" for none
RenameError(f, src, dst) ==
  IF src \notin DOMAIN f THEN "ENOENT"
  ELSE IF src = dst THEN "OK"
  ELSE IF dst = <<>> \/ Parent(dst) \notin DOMAIN f THEN "ENOENT"
  ELSE IF ~IsDir(f, Parent(dst)) THEN "ENOTDIR"
  ELSE IF IsPrefix(src, dst) THEN "EINVAL"
  ELSE IF dst \notin DOMAIN f THEN "OK"
  ELSE IF IsFile(f, src) /\ IsDir(f, dst) THEN "EISDIR"
  ELSE IF IsDir(f, src) /\ IsFile(f, dst) THEN "ENOTDIR"
  ELSE IF IsDir(f, src) /\ Children(f, dst) # {} THEN "ENOTEMPTY"
  ELSE "OK"

Rebase(src, dst, q) == dst \o SubSeq(q, Len(src) + 1, Len(q))

\* A plausible slip: a failed move that has already unlinked the source.
RenameFailureDropsSource(f, src, dst) ==
  [q \in DOMAIN f \ Under(f, src) |-> f[q]]

\* fs.renameSync(src, dst) that throws: the file system is left as it was
RenameFailure(f, src, dst) == f

\* A plausible slip: a copy (fs.cpSync) in place of the rename, so the source
\* stays where it was.
RenameResultKeepsSource(f, src, dst) ==
  IF src = dst THEN f
  ELSE
    LET Kept == {q \in DOMAIN f : ~IsPrefix(dst, q)}
        Moved == {Rebase(src, dst, q) : q \in Under(f, src)}
    IN [q \in Kept \cup Moved |->
          IF q \in Moved THEN f[src \o SubSeq(q, Len(dst) + 1, Len(q))] ELSE f[q]]

\* fs.renameSync(src, dst), rename(2): the file system after a successful call;
\* the source and everything under it replace the destination
RenameResult(f, src, dst) ==
  IF src = dst THEN f
  ELSE
    LET Kept == {q \in DOMAIN f : ~IsPrefix(src, q) /\ ~IsPrefix(dst, q)}
        Moved == {Rebase(src, dst, q) : q \in Under(f, src)}
    IN [q \in Kept \cup Moved |->
          IF q \in Moved THEN f[src \o SubSeq(q, Len(dst) + 1, Len(q))] ELSE f[q]]

\* A plausible slip: a directory that cannot be listed reads as an empty one.
ReaddirErrorSwallowed(f, p) == "OK"

\* fs.readdirSync(p): the error it throws, "OK" for none
ReaddirError(f, p) ==
  IF p \notin DOMAIN f THEN "ENOENT"
  ELSE IF ~IsDir(f, p) THEN "ENOTDIR"
  ELSE "OK"

\* fs.readdirSync(p): the names of the entries of p
ReaddirNames(f, p) == {Base(q) : q \in Children(f, p)}

\* the orders in which a set of names can be listed
Listings(S) ==
  {s \in [1..Cardinality(S) -> S] : \A i, j \in 1..Cardinality(S) : i # j => s[i] # s[j]}

(***************************************************************************)
(* Starting directories: at most MaxEntries of the names below at the top   *)
(* level, each in one of its shapes (a file, an empty directory, a          *)
(* directory with content); or fullPath missing; or fullPath a plain file.  *)
(***************************************************************************)
TopNames == {aTxt, bTXT, txt, README, dotEnv, cDot}

F(p) == <<p, "file">>
D(p) == <<p, "dir">>

ShapesOf(n) ==
  IF n = aTxt THEN {{F(<<aTxt>>)}, {D(<<aTxt>>)}, {D(<<aTxt>>), F(<<aTxt, README>>)}}
  ELSE IF n = txt THEN
    {{F(<<txt>>)},
     {D(<<txt>>)},
     {D(<<txt>>), F(<<txt, aTxt>>)},
     {D(<<txt>>), D(<<txt, aTxt>>)},
     {D(<<txt>>), D(<<txt, aTxt>>), F(<<txt, aTxt, README>>)}}
  ELSE {{F(<<n>>)}}

AllShapes == UNION {ShapesOf(n) : n \in TopNames}

MkFs(S) ==
  [p \in {e[1] : e \in S} |->
     LET e == CHOOSE x \in S : x[1] = p
     IN IF e[2] = "dir" THEN DirNode(p) ELSE FileNode(p)]

SmallSets == {X \in SUBSET TopNames : Cardinality(X) <= MaxEntries}

Choices(T) == {g \in [T -> AllShapes] : \A n \in T : g[n] \in ShapesOf(n)}

StartDirs ==
  UNION {{MkFs({D(fullPath)} \cup UNION {sh[n] : n \in T}) : sh \in Choices(T)} :
           T \in SmallSets}

MissingDir == MkFs({})
PlainFile == MkFs({F(fullPath)})

(***************************************************************************)
(* The Express app of src/BackEnd/3_expressJS/README.md, lines 2254-2302:   *)
(* its state while the organizer script is what runs                        *)
(***************************************************************************)
\* no request is in the chain
NoRequest ==
  [id |-> 0, method |-> "", url |-> "", user |-> "undefined", timestamp |-> 0,
   at |-> 0, err |-> "OK", ran |-> <<>>]

WebIdle ==
  /\ req = NoRequest
  /\ logsTxt = <<>>
  /\ sent = <<>>
  /\ arrived = 0

\* src/unnamed/part_002: the component is not mounted
ReactIdle ==
  /\ hook = 0
  /\ value = 0
  /\ queue = <<>>
  /\ clicks = 0
  /\ screen = <<>>

\* an empty working directory
NoFiles == [t \in {} |-> <<>>]

\* src/3_expressJS/note_taking_api/main.js: the app is not running
NotesIdle ==
  /\ disk = NoFiles
  /\ calls = <<>>
  /\ replies = <<>>
  /\ overlap = FALSE

\* src/exercises/dummyData/main.js: the app is not running
DummyIdle ==
  /\ employees = <<>>
  /\ gens = <<>>
  /\ together = FALSE

(***************************************************************************)
(* The script                                                               *)
(***************************************************************************)
Said(file, out, err) == [file |-> file, out |-> out, err |-> err]
Called(op, entry, src, dst, res) ==
  [op |-> op, entry |-> entry, src |-> src, dst |-> dst, res |-> res]

NoName == <<>>
MOVED == "File moved successfully!"
FOLDER == "folder exists"
CAUGHT == "console.error(err)"
OUTER == "Error reading directory:"

\* the environment may make a call fail although the name space allows it
Injected(fault) == IF fault THEN "EACCES" ELSE "OK"
FaultChoices == IF faults < MaxFaults THEN {FALSE, TRUE} ELSE {FALSE}
Outcome(err, fault) == IF err # "OK" THEN err ELSE Injected(fault)

Init ==
  /\ fs \in StartDirs \cup {MissingDir, PlainFile}
  /\ pc = "start"
  /\ files = <<>>
  /\ idx = 1
  /\ log = <<>>
  /\ ops = <<>>
  /\ run = 1
  /\ faults = 0
  /\ fsAtScan = fs
  /\ WebIdle
  /\ ReactIdle
  /\ NotesIdle
  /\ DummyIdle

\* line 7 throws: control goes to the outer catch (lines 29-31)
ReaddirThrows ==
  /\ pc = "start"
  /\ \E fault \in FaultChoices :
       LET err == Outcome(ReaddirError(fs, fullPath), fault)
       IN /\ err # "OK"
          /\ faults' = IF fault /\ ReaddirError(fs, fullPath) = "OK" THEN faults + 1 ELSE faults
          /\ ops' = Append(ops, Called("readdir", NoName, fullPath, fullPath, err))
          /\ log' = Append(log, Said(NoName, OUTER, err))
  /\ pc' = "aborted"
  /\ UNCHANGED <<fs, files, idx, run, fsAtScan, otherThanScript>>

\* line 7 returns the listing, in some order
ReaddirReturns ==
  /\ pc = "start"
  /\ ReaddirError(fs, fullPath) = "OK"
  /\ \E listing \in Listings(ReaddirNames(fs, fullPath)) : files' = listing
  /\ idx' = 1
  /\ ops' = Append(ops, Called("readdir", NoName, fullPath, fullPath, "OK"))
  /\ pc' = "loop"
  /\ UNCHANGED <<fs, log, run, faults, fsAtScan, otherThanScript>>

\* A plausible slip: the inner catch tries the move a second time.
MoveWithRetry(f, file, extDir, before, said, fault) ==
  LET src == joinPath(fullPath, file)
      dst == joinPath(extDir, file)
      err == Outcome(RenameError(f, src, dst), fault)
      call == Called("rename", file, src, dst, err)
  IN /\ fs' = IF err = "OK" THEN RenameResult(f, src, dst) ELSE RenameFailure(f, src, dst)
     /\ ops' = ops \o before \o (IF err = "OK" THEN <<call>> ELSE <<call, call>>)
     /\ log' = log \o said \o <<Said(file, IF err = "OK" THEN MOVED ELSE CAUGHT, err)>>
     /\ faults' = IF fault /\ RenameError(f, src, dst) = "OK" THEN faults + 1 ELSE faults

\* A plausible slip: fs.rename (asynchronous) in place of fs.renameSync, so
\* the callback returns before the move is made.
MoveDeferred(f, file, extDir, before, said, fault) ==
  /\ fs' = f
  /\ ops' = ops \o before
  /\ log' = log \o said
  /\ faults' = faults

\* lines 12-17 and 20-25: renameSync inside the inner try/catch, on file system f
Move(f, file, extDir, before, said, fault) ==
  LET src == joinPath(fullPath, file)
      dst == joinPath(extDir, file)
      err == Outcome(RenameError(f, src, dst), fault)
  IN /\ fs' = IF err = "OK" THEN RenameResult(f, src, dst) ELSE RenameFailure(f, src, dst)
     /\ ops' = ops \o before \o <<Called("rename", file, src, dst, err)>>
     /\ log' = log \o said \o <<Said(file, IF err = "OK" THEN MOVED ELSE CAUGHT, err)>>
     /\ faults' = IF fault /\ RenameError(f, src, dst) = "OK" THEN faults + 1 ELSE faults

\* lines 9-17: the callback when existsSync(path.join(fullPath, extName)) holds
FolderExists ==
  /\ pc = "loop"
  /\ idx <= Len(files)
  /\ LET file == files[idx]
         extDir == joinPath(fullPath, extName(file))
     IN /\ existsSync(fs, extDir)
        /\ \E fault \in FaultChoices :
             Move(fs, file, extDir,
                  <<Called("exists", file, extDir, extDir, "true")>>,
                  <<Said(file, FOLDER, "OK")>>, fault)
  /\ idx' = idx + 1
  /\ UNCHANGED <<pc, files, run, fsAtScan, otherThanScript>>

\* lines 9-10 and 18-25: the callback when the directory is missing and
\* mkdirSync succeeds
MakeFolder ==
  /\ pc = "loop"
  /\ idx <= Len(files)
  /\ LET file == files[idx]
         extDir == joinPath(fullPath, extName(file))
     IN /\ ~existsSync(fs, extDir)
        /\ MkdirError(fs, extDir) = "OK"
        /\ \E fault \in FaultChoices :
             Move(MkdirResult(fs, extDir), file, extDir,
                  <<Called("exists", file, extDir, extDir, "false"),
                    Called("mkdir", file, extDir, extDir, "OK")>>,
                  <<>>, fault)
  /\ idx' = idx + 1
  /\ UNCHANGED <<pc, files, run, fsAtScan, otherThanScript>>

\* lines 9-10, 18-19 and 29-31: mkdirSync throws outside the inner try, so
\* the exception leaves forEach and reaches the outer catch
MkdirThrows ==
  /\ pc = "loop"
  /\ idx <= Len(files)
  /\ LET file == files[idx]
         extDir == joinPath(fullPath, extName(file))
     IN /\ ~existsSync(fs, extDir)
        /\ \E fault \in FaultChoices :
             LET err == Outcome(MkdirError(fs, extDir), fault)
             IN /\ err # "OK"
                /\ faults' = IF fault /\ MkdirError(fs, extDir) = "OK" THEN faults + 1 ELSE faults
                /\ ops' = ops \o <<Called("exists", file, extDir, extDir, "false"),
                                   Called("mkdir", file, extDir, extDir, err)>>
                /\ log' = Append(log, Said(NoName, OUTER, err))
  /\ pc' = "aborted"
  /\ UNCHANGED <<fs, files, idx, run, fsAtScan, otherThanScript>>

\* A plausible slip: the directory is listed again when the loop ends and the
\* names that appeared meanwhile are handled in the same run.
FinishRescans ==
  /\ pc = "loop"
  /\ idx > Len(files)
  /\ LET New == ReaddirNames(fs, fullPath) \ {files[i] : i \in 1..Len(files)}
     IN IF New = {}
        THEN pc' = "done" /\ files' = files
        ELSE pc' = pc /\ \E more \in Listings(New) : files' = files \o more
  /\ UNCHANGED <<fs, idx, log, ops, run, faults, fsAtScan, otherThanScript>>

\* line 27: forEach returns after the last entry
Finish ==
  /\ pc = "loop"
  /\ idx > Len(files)
  /\ pc' = "done"
  /\ UNCHANGED <<fs, files, idx, log, ops, run, faults, fsAtScan, otherThanScript>>

\* the script is run again on the directory as the last run left it
Rerun ==
  /\ pc \in {"done", "aborted"}
  /\ run < MaxRuns
  /\ run' = run + 1
  /\ pc' = "start"
  /\ files' = <<>>
  /\ idx' = 1
  /\ log' = <<>>
  /\ ops' = <<>>
  /\ fsAtScan' = fs
  /\ UNCHANGED <<fs, faults, otherThanScript>>

Next ==
  \/ ReaddirThrows
  \/ ReaddirReturns
  \/ FolderExists
  \/ MakeFolder
  \/ MkdirThrows
  \/ Finish
  \/ Rerun

Spec == Init /\ [][Next]_vars
(***************************************************************************)
(* The script on the directory {a.txt, b.jpg, c.txt, notes}, without and    *)
(* with a jpg/ directory already there                                      *)
(***************************************************************************)
EndToEndDir == MkFs({D(fullPath), F(<<aTxt>>), F(<<bJpg>>), F(<<cTxt>>), F(<<notes>>)})
EndToEndDirWithJpg ==
  MkFs({D(fullPath), F(<<aTxt>>), F(<<bJpg>>), F(<<cTxt>>), F(<<notes>>), D(<<jpg>>)})

InitScenario ==
  /\ fs \in {EndToEndDir, EndToEndDirWithJpg}
  /\ pc = "start"
  /\ files = <<>>
  /\ idx = 1
  /\ log = <<>>
  /\ ops = <<>>
  /\ run = 1
  /\ faults = 0
  /\ fsAtScan = fs
  /\ WebIdle
  /\ ReactIdle
  /\ NotesIdle
  /\ DummyIdle

SpecScenario == InitScenario /\ [][Next]_vars

\* one run of the script: synchronous code that runs to its end once started
RunStep ==
  \/ ReaddirThrows
  \/ ReaddirReturns
  \/ FolderExists
  \/ MakeFolder
  \/ MkdirThrows
  \/ Finish

LiveScenario == InitScenario /\ [][Next]_vars /\ WF_vars(RunStep)

(***************************************************************************)
(* The Express app (src/BackEnd/3_expressJS/README.md, lines 2254-2302).    *)
(* Express keeps the app's layers in the order of the app.use / app.get     *)
(* calls and hands a request to the first layer that matches it; next()     *)
(* hands it to the next matching layer, the end of the stack is Express'    *)
(* final handler (404), and an exception thrown by a layer goes to the      *)
(* final handler as a 500.  All layers are synchronous, so one request is   *)
(* in the chain at a time.                                                  *)
(***************************************************************************)
Layer(name, kind, path) == [name |-> name, kind |-> kind, path |-> path]

\* lines 2277-2295: the layers in the order they are defined
Stack ==
  <<Layer("logger", "use", "*"),
    Layer("decorate", "use", "*"),
    Layer("about", "get", "/about"),
    Layer("root", "get", "/")>>

FinalHandler == Len(Stack) + 1
Hung == Len(Stack) + 2

Methods == {"GET", "POST"}
Urls == {"/", "/about", "/missing"}

\* does a layer take the request: app.use takes every request, app.get the
\* GET requests for its path
Matches(layer, r) ==
  \/ layer.kind = "use"
  \/ layer.kind = "get" /\ r.method = "GET" /\ r.url = layer.path

\* the first layer from position `from` on that takes the request
NextMatch(from, r) ==
  Min({i \in from..Len(Stack) : Matches(Stack[i], r)} \cup {FinalHandler})

\* A plausible slip: a middleware that returns without calling next()
\* (as the middleware of lines 2257-2259 does).
nextForgotten(r, name) == [r EXCEPT !.at = Hung, !.ran = Append(@, name)]

\* next(): the layer `name` has run and the request goes to the next match
next(r, name) ==
  [r EXCEPT !.at = NextMatch(r.at + 1, r), !.ran = Append(@, name)]

\* a layer throws: Express skips to the final handler with the error
Throw(r, name, err) ==
  [r EXCEPT !.at = FinalHandler, !.err = err, !.ran = Append(@, name)]

\* line 2278: `${new Date().toLocaleString('en-IN')} - ${req.method} - ${req.url}\n`
LogLine(r) == [time |-> r.id, method |-> r.method, url |-> r.url]

\* A plausible slip: fs.writeFileSync in place of fs.appendFileSync.
OverwriteFile(content, line) == <<line>>

\* line 2280: fs.appendFileSync("logs.txt", log)
AppendFile(content, line) == Append(content, line)

\* a line left in logs.txt by an earlier execution of the app
OldLine == [time |-> 0, method |-> "GET", url |-> "/"]

\* res.send(body): the response of the request, with the layers that ran
Response(r, name, status, body) ==
  [id |-> r.id, method |-> r.method, url |-> r.url, status |-> status,
   body |-> body, ran |-> Append(r.ran, name)]

\* the organizer script is not what runs
ScriptIdle ==
  /\ fs = MissingDir
  /\ pc = "done"
  /\ files = <<>>
  /\ idx = 1
  /\ log = <<>>
  /\ ops = <<>>
  /\ run = MaxRuns
  /\ faults = 0
  /\ fsAtScan = MissingDir

\* line 2301: app.listen
WebInit ==
  /\ ScriptIdle
  /\ ReactIdle
  /\ NotesIdle
  /\ DummyIdle
  /\ req = NoRequest
  /\ logsTxt \in {<<>>, <<OldLine>>}
  /\ sent = <<>>
  /\ arrived = 0

\* a request arrives and Express hands it to the first matching layer
Arrive ==
  /\ req.at = 0
  /\ arrived < MaxRequests
  /\ arrived' = arrived + 1
  /\ \E m \in Methods, u \in Urls :
       LET r == [NoRequest EXCEPT !.id = arrived + 1, !.method = m, !.url = u]
       IN req' = [r EXCEPT !.at = NextMatch(1, r)]
  /\ UNCHANGED <<logsTxt, sent, otherThanWeb>>

AtLayer(name) == req.at \in 1..Len(Stack) /\ Stack[req.at].name = name

\* lines 2277-2282: the logging middleware appends its line and calls next()
LoggerNext ==
  /\ AtLayer("logger")
  /\ logsTxt' = AppendFile(logsTxt, LogLine(req))
  /\ req' = next(req, "logger")
  /\ UNCHANGED <<sent, arrived, otherThanWeb>>

\* lines 2277-2280: appendFileSync throws (logs.txt cannot be written)
LoggerThrows ==
  /\ AtLayer("logger")
  /\ req' = Throw(req, "logger", "EACCES")
  /\ UNCHANGED <<logsTxt, sent, arrived, otherThanWeb>>

\* lines 2283-2287: the second middleware decorates the request
Decorate ==
  /\ AtLayer("decorate")
  /\ req' = next([req EXCEPT !.user = "snow", !.timestamp = req.id], "decorate")
  /\ UNCHANGED <<logsTxt, sent, arrived, otherThanWeb>>

\* lines 2288-2291: app.get('/about') sends `hello ${req.user}!`
About ==
  /\ AtLayer("about")
  /\ sent' = Append(sent, Response(req, "about", 200, <<"hello ", req.user, "!">>))
  /\ req' = NoRequest
  /\ UNCHANGED <<logsTxt, arrived, otherThanWeb>>

\* lines 2293-2295: app.get("/") sends "Hello World!"
Root ==
  /\ AtLayer("root")
  /\ sent' = Append(sent, Response(req, "root", 200, <<"Hello World!">>))
  /\ req' = NoRequest
  /\ UNCHANGED <<logsTxt, arrived, otherThanWeb>>

\* Express' final handler: 500 after an exception, 404 when no layer answered
Final ==
  /\ req.at = FinalHandler
  /\ sent' = Append(sent,
               IF req.err # "OK"
               THEN Response(req, "final", 500, <<"Internal Server Error">>)
               ELSE Response(req, "final", 404, <<"Cannot ", req.method, " ", req.url>>))
  /\ req' = NoRequest
  /\ UNCHANGED <<logsTxt, arrived, otherThanWeb>>

\* the steps Express takes for the request in the chain
Handle ==
  \/ LoggerNext
  \/ LoggerThrows
  \/ Decorate
  \/ About
  \/ Root
  \/ Final

WebNext == Arrive \/ Handle

WebSpec == WebInit /\ [][WebNext]_vars

\* a request in the chain is handled on: the layers are synchronous code
WebLive == WebInit /\ [][WebNext]_vars /\ WF_vars(Handle)

(***************************************************************************)
(* The React counter (src/unnamed/part_002).  A render reads the state of   *)
(* useState into the constant value, shows it, and builds the onClick       *)
(* closure over that constant; setValue(v) queues v, and the next render    *)
(* takes the queued updates in order, each replacing the state.             *)
(***************************************************************************)
\* lines 5-9: the first render, useState(0)
ReactInit ==
  /\ ScriptIdle
  /\ WebIdle
  /\ NotesIdle
  /\ DummyIdle
  /\ hook = 0
  /\ value = 0
  /\ queue = <<>>
  /\ clicks = 0
  /\ screen = <<0>>

\* lines 10-12: onClick runs the closure of the last render
Click ==
  /\ clicks < MaxClicks
  /\ clicks' = clicks + 1
  /\ queue' = Append(queue, value + 1)
  /\ UNCHANGED <<hook, value, screen, otherThanReact>>

\* lines 5-9: React renders again: the queued values replace the state one
\* after the other, and the result is read into value and shown
Render ==
  /\ queue # <<>>
  /\ hook' = queue[Len(queue)]
  /\ value' = queue[Len(queue)]
  /\ screen' = Append(screen, queue[Len(queue)])
  /\ queue' = <<>>
  /\ UNCHANGED <<clicks, otherThanReact>>

ReactNext == Click \/ Render

ReactSpec == ReactInit /\ [][ReactNext]_vars

(***************************************************************************)
(* The note-taking API (src/3_expressJS/note_taking_api/main.js).  A route  *)
(* handler starts an asynchronous fs call and returns; the call is made     *)
(* later by the thread pool and its callback then sends the response.       *)
(* Calls of different requests complete in any order.                       *)
(***************************************************************************)
snowTxt == "snow.txt"
\* req.params.title of the requests made
Titles == {snowTxt}
Snow == <<"i am snow">>
OldNote == <<"an old note">>
Truncated == <<>>

Routes == {"POST /notes/add", "GET /notes/:title", "DELETE /notes/:title"}
Call(route, title) ==
  [route |-> route, title |-> title, stage |-> "fs", err |-> "OK", data |-> <<>>]
Reply(id, status, body) == [id |-> id, status |-> status, body |-> body]

\* line 45: app.listen; the working directory may hold notes already
NotesInit ==
  /\ ScriptIdle
  /\ WebIdle
  /\ ReactIdle
  /\ DummyIdle
  /\ disk \in {NoFiles, [t \in {snowTxt} |-> OldNote]}
  /\ calls = <<>>
  /\ replies = <<>>
  /\ overlap = FALSE

Unanswered == {i \in 1..Len(calls) : calls[i].stage # "sent"}

\* lines 11-12, 22-23, 33-34: the route handler starts the fs call and returns
Receive ==
  /\ Len(calls) < MaxNotes
  /\ \E route \in Routes, title \in Titles :
       /\ (route = "POST /notes/add") => title = snowTxt
       /\ calls' = Append(calls, Call(route, title))
  /\ overlap' = (overlap \/ Unanswered # {})
  /\ UNCHANGED <<disk, replies, otherThanNotes>>

\* a file of the directory after content is written to it
WithFile(d, title, content) ==
  [t \in DOMAIN d \cup {title} |-> IF t = title THEN content ELSE d[t]]
WithoutFile(d, title) == [t \in DOMAIN d \ {title} |-> d[t]]

\* A plausible slip: fs.appendFile in place of fs.writeFile.
appendFile(d, title, content) ==
  WithFile(d, title, (IF title \in DOMAIN d THEN d[title] ELSE <<>>) \o content)

\* line 12: fs.writeFile replaces the content of the file, creating it if needed
writeFile(d, title, content) == WithFile(d, title, content)

Completed(i, err, data) == [calls EXCEPT ![i].stage = "sent", ![i].err = err, ![i].data = data]

\* A plausible slip: the error branch without its return, so the success
\* response follows the 500.
RespondWithoutReturn(i, err, failed, ok) ==
  IF err # "OK"
  THEN <<Reply(i, 500, failed), Reply(i, 200, ok)>>
  ELSE <<Reply(i, 200, ok)>>

\* lines 13-17, 24-28, 35-39: if (error) return res.status(500).send(...);
\* res.send(...)
Respond(i, err, failed, ok) ==
  IF err # "OK" THEN <<Reply(i, 500, failed)>> ELSE <<Reply(i, 200, ok)>>

\* lines 12-19: fs.writeFile('snow.txt', 'i am snow') is carried out and its
\* callback runs; when the call fails the file is as it was, or has been
\* opened and truncated
AddDone(i) ==
  /\ calls[i].stage = "fs"
  /\ calls[i].route = "POST /notes/add"
  /\ \E err \in {"OK", "ENOSPC"} :
       /\ disk' \in IF err = "OK" THEN {writeFile(disk, snowTxt, Snow)}
                    ELSE {disk, WithFile(disk, snowTxt, Truncated)}
       /\ calls' = Completed(i, err, <<>>)
       /\ replies' = replies \o
            Respond(i, err, <<"error in adding a file">>, <<"file is written">>)
  /\ UNCHANGED <<overlap, otherThanNotes>>

\* lines 23-30: fs.readFile(req.params.title) is carried out and its callback
\* runs
GetDone(i) ==
  /\ calls[i].stage = "fs"
  /\ calls[i].route = "GET /notes/:title"
  /\ LET title == calls[i].title
     IN \E err \in {IF title \in DOMAIN disk THEN "OK" ELSE "ENOENT", "EACCES"} :
          LET data == IF err = "OK" THEN disk[title] ELSE <<>>
          IN /\ calls' = Completed(i, err, data)
             /\ replies' = replies \o
                  Respond(i, err, <<"error in reading a file">>,
                          <<"title", title, "content">> \o data)
  /\ UNCHANGED <<disk, overlap, otherThanNotes>>

\* lines 34-41: fs.unlink(req.params.title) is carried out and its callback
\* runs
DeleteDone(i) ==
  /\ calls[i].stage = "fs"
  /\ calls[i].route = "DELETE /notes/:title"
  /\ LET title == calls[i].title
     IN \E err \in {IF title \in DOMAIN disk THEN "OK" ELSE "ENOENT", "EACCES"} :
          /\ disk' = IF err = "OK" THEN WithoutFile(disk, title) ELSE disk
          /\ calls' = Completed(i, err, <<>>)
          /\ replies' = replies \o
               Respond(i, err, <<"error in deleting a file">>, <<"note is deleted">>)
  /\ UNCHANGED <<overlap, otherThanNotes>>

\* the thread pool and the event loop get every started call done
Progress == \E i \in 1..Len(calls) : AddDone(i) \/ GetDone(i) \/ DeleteDone(i)

NotesNext == Receive \/ Progress

NotesSpec == NotesInit /\ [][NotesNext]_vars

NotesLive == NotesInit /\ [][NotesNext]_vars /\ WF_vars(Progress)

(***************************************************************************)
(* The dummy-data generator (src/exercises/dummyData/main.js).  The async   *)
(* handler of GET /generate awaits deleteMany, builds 6 documents, awaits   *)
(* insertMany and renders; at each await other requests can run.            *)
(***************************************************************************)
names == <<"Arjun", "Emily", "Carlos", "Fatima", "Liam", "Zara", "Noah">>
cities == <<"Tokyo", "Mumbai", "Paris", "Sydney", "Dubai", "Toronto", "Seoul">>
languages == <<"Python", "JavaScript", "C#", "Rust", "Go", "TypeScript", "Kotlin">>

\* line 19: for (let i = 0; i < 6; i++)
LoopEnd == 6
\* line 20: Math.floor(Math.random() * (100000 - 10000 + 1)) + 10000
SalaryMax == 100000
SalaryMin == 10000

\* Math.random() gives n / Den for some n in 0..Den-1; the streams of numerators
\* a request may draw: all lowest, all highest, or changing
Den == 10000
Streams == {"low", "high", "mixed"}
Random(stream, n) ==
  IF stream = "low" THEN 0
  ELSE IF stream = "high" THEN Den - 1
  ELSE IF (n \div 2) % 2 = 0 THEN 0 ELSE Den - 1

\* lines 20-28: the document of iteration i (0-based), drawing twice
Document(stream, i) ==
  [name |-> names[i + 1],
   city |-> cities[i + 1],
   language |-> languages[i + 1],
   salary |-> ((Random(stream, 2 * i + 1) * (SalaryMax - SalaryMin + 1)) \div Den) + SalaryMin,
   isManager |-> Random(stream, 2 * i + 2) * 2 < Den]

\* lines 18-29: let data = []; the loop pushes LoopEnd documents
Data(stream) == [k \in 1..LoopEnd |-> Document(stream, k - 1)]

OldDocument ==
  [name |-> "Old", city |-> "Old", language |-> "Old", salary |-> 1, isManager |-> FALSE]

\* A plausible slip: deleteOne in place of deleteMany.
deleteOne(coll) == IF coll = <<>> THEN coll ELSE Tail(coll)

\* line 14: Employee.deleteMany({})
deleteMany(coll) == <<>>

\* line 30: Employee.insertMany(data)
insertMany(coll, data) == coll \o data

\* line 34: app.listen; the collection holds whatever was there
DummyInit ==
  /\ ScriptIdle
  /\ WebIdle
  /\ ReactIdle
  /\ NotesIdle
  /\ employees \in {<<>>, <<OldDocument>>, <<OldDocument, OldDocument>>}
  /\ gens = <<>>
  /\ together = FALSE

Running == {i \in 1..Len(gens) : gens[i].at # "rendered"}

\* lines 13-14: the handler starts and awaits Employee.deleteMany({})
Generate ==
  /\ Len(gens) < MaxGenerate
  /\ gens' = Append(gens, [at |-> "deleteMany", data |-> <<>>])
  /\ together' = (together \/ Running # {})
  /\ UNCHANGED <<employees, otherThanDummy>>

\* lines 14-30: deleteMany is done; the handler builds data and awaits
\* Employee.insertMany(data)
Deleted(i) ==
  /\ gens[i].at = "deleteMany"
  /\ employees' = deleteMany(employees)
  /\ \E stream \in Streams :
       gens' = [gens EXCEPT ![i] = [at |-> "insertMany", data |-> Data(stream)]]
  /\ UNCHANGED <<together, otherThanDummy>>

\* lines 30-31: insertMany is done; the handler renders the page
Inserted(i) ==
  /\ gens[i].at = "insertMany"
  /\ employees' = insertMany(employees, gens[i].data)
  /\ gens' = [gens EXCEPT ![i].at = "rendered"]
  /\ UNCHANGED <<together, otherThanDummy>>

\* lines 14 and 30: the awaited call rejects; the async handler has no catch,
\* so no response is sent
Rejected(i) ==
  /\ gens[i].at \in {"deleteMany", "insertMany"}
  /\ gens' = [gens EXCEPT ![i].at = "rejected"]
  /\ UNCHANGED <<employees, together, otherThanDummy>>

Resume == \E i \in 1..Len(gens) : Deleted(i) \/ Inserted(i) \/ Rejected(i)

DummyNext == Generate \/ Resume

DummySpec == DummyInit /\ [][DummyNext]_vars

(***************************************************************************)
(* Vocabulary of the properties                                             *)
(***************************************************************************)
Ended == pc \in {"done", "aborted"}
Listed == ops # <<>> /\ ops[1].res = "OK"
TopAtScan == ReaddirNames(fsAtScan, fullPath)
Source(name) == joinPath(fullPath, name)
CategoryDir(name) == joinPath(fullPath, extName(name))
Dest(name) == joinPath(CategoryDir(name), name)
PositionOf(name) == CHOOSE i \in 1..Len(files) : files[i] = name

\* everything that was at or under p when the run started is still there
Kept(p) == \A q \in Under(fsAtScan, p) : q \in DOMAIN fs /\ fs[q] = fsAtScan[q]

CallsFor(name, op) == {k \in 1..Len(ops) : ops[k].op = op /\ ops[k].entry = name}
FailedCalls(op) == {k \in 1..Len(ops) : ops[k].op = op /\ ops[k].res # "OK"}
Reported(name, out) == \E k \in 1..Len(log) : log[k].file = name /\ log[k].out = out
NothingFailed == \A k \in 1..Len(ops) : ops[k].res \in {"OK", "true", "false"}
Processed(name) == CallsFor(name, "exists") # {} /\ CallsFor(name, "rename") # {}
RealMoves == {k \in 1..Len(ops) :
                ops[k].op = "rename" /\ ops[k].res = "OK" /\ ops[k].src # ops[k].dst}

\* where the node that was the top-level entry name at scan time is now
PlacesOf(name) == {p \in DOMAIN fs : fs[p] = fsAtScan[Source(name)]}

UpperCase == <<"A", "D", "E", "M", "R", "T", "X">>
LowerCase == <<"a", "d", "e", "m", "r", "t", "x">>
ToLowerChar(c) ==
  IF \E i \in 1..Len(UpperCase) : UpperCase[i] = c
  THEN LowerCase[CHOOSE i \in 1..Len(UpperCase) : UpperCase[i] = c]
  ELSE c
ToLowerCase(s) == [i \in 1..Len(s) |-> ToLowerChar(s[i])]

\* the sentinel category of the specification for names without extension
NoExt == <<"_", "n", "o", "e", "x", "t">>

(***************************************************************************)
(* C1..C10                                                                  *)
(***************************************************************************)

\* C1: a file that already exists at <dir>/<category>/<name> when the entry
\* <name> is handled is never replaced: the move is reported as a failure and
\* both the source and the file that was at the destination keep their content.
C1_NoOverwrite ==
  \A i \in 1..(idx - 1) :
    LET name == files[i]
    IN (CategoryDir(name) # fullPath /\ Dest(name) \in DOMAIN fsAtScan)
         => /\ Reported(name, CAUGHT)
            /\ Kept(Source(name))
            /\ Kept(Dest(name))

\* every entry listed at scan time is, with the node it was, at its original
\* path or at its destination path
C2_EntryAtSourceOrDest ==
  Listed =>
    \A name \in TopAtScan :
      \/ Source(name) \in DOMAIN fs /\ fs[Source(name)] = fsAtScan[Source(name)]
      \/ Dest(name) \in DOMAIN fs /\ fs[Dest(name)] = fsAtScan[Source(name)]

\* a step in which renameSync throws leaves the source and all under it alone
C2_FailedMoveLeavesSource ==
  (/\ Len(ops') > Len(ops)
   /\ ops'[Len(ops')].op = "rename"
   /\ ops'[Len(ops')].res # "OK")
    => \A q \in Under(fs, ops'[Len(ops')].src) : q \in DOMAIN fs' /\ fs'[q] = fs[q]

\* C2: no data loss for scanned entries: at every point of a run, so also
\* when it has ended normally or through a failure, every entry listed at
\* scan time exists at its original path or at <dir>/<category>/<name>, never
\* at neither; and a move that fails leaves the source in place and unmodified.
C2_NoDataLoss == [](C2_EntryAtSourceOrDest) /\ [][C2_FailedMoveLeavesSource]_vars

C2_Witness ==
  /\ pc = "done"
  /\ FailedCalls("rename") # {}
  /\ RealMoves # {}

\* C3: the second of two runs in succession reports no successful move
\* (stated for runs in which the environment makes no call fail).
C3_SecondRunMovesNothing ==
  (run >= 2 /\ faults = 0) => \A k \in 1..Len(log) : log[k].out # MOVED

\* C4: when no call fails for a reason outside the name space, a run that
\* follows another leaves the file system exactly as it found it: it creates
\* no directory and relocates no entry.
C4_SecondRunChangesNothing ==
  (run >= 2 /\ faults = 0) =>
    /\ fs = fsAtScan
    /\ \A k \in 1..Len(ops) : ops[k].op # "mkdir"
    /\ RealMoves = {}

C4_Witness ==
  /\ run = 2
  /\ pc = "done"
  /\ faults = 0
  /\ \E p \in DOMAIN fs : fs[p].made /\ Children(fs, p) # {}
  /\ FailedCalls("rename") # {}

\* C5: when the move of an entry fails, every entry after it in the listing
\* is still processed in the same run (its existence check and its move
\* attempt both happen).
C5_RenameFailureKeepsBatchGoing ==
  Ended =>
    \A k \in FailedCalls("rename") :
      \A j \in (PositionOf(ops[k].entry) + 1)..Len(files) : Processed(files[j])

\* the step in which renameSync throws is followed by the next entry: the
\* inner catch swallows the error and forEach goes on
C5_FailedRenameStepContinues ==
  [][(/\ Len(ops') > Len(ops)
      /\ ops'[Len(ops')].op = "rename"
      /\ ops'[Len(ops')].res # "OK")
       => (pc' = "loop" /\ idx' = idx + 1 /\ files' = files)]_vars

\* C6: when mkdir fails for an entry, the entry is reported as failed and
\* every entry after it in the listing is still processed in the same run.
C6_MkdirFailureKeepsBatchGoing ==
  Ended =>
    \A k \in FailedCalls("mkdir") :
      /\ Reported(ops[k].entry, CAUGHT)
      /\ \A j \in (PositionOf(ops[k].entry) + 1)..Len(files) : Processed(files[j])

\* C7: a top-level entry that is a directory stays at its original path and
\* no category directory is created on its account.
C7_DirectoriesUntouched ==
  Listed =>
    \A name \in TopAtScan :
      IsDir(fsAtScan, Source(name)) =>
        /\ Source(name) \in DOMAIN fs
        /\ fs[Source(name)] = fsAtScan[Source(name)]
        /\ CallsFor(name, "mkdir") = {}

\* C8: two file entries whose extensions differ only in letter case get the
\* same, lower-case, category key and after a run without failures are in the
\* same directory.
C8_CaseInsensitiveGrouping ==
  (pc = "done" /\ NothingFailed) =>
    \A m, n \in TopAtScan :
      (/\ m # n
       /\ IsFile(fsAtScan, Source(m))
       /\ IsFile(fsAtScan, Source(n))
       /\ extName(m) # <<>>
       /\ ToLowerCase(extName(m)) = ToLowerCase(extName(n)))
        => /\ extName(m) = ToLowerCase(extName(m))
           /\ extName(n) = extName(m)
           /\ \E p \in PlacesOf(m), q \in PlacesOf(n) : Parent(p) = Parent(q)

\* C9: a file entry without extension is, after a run without failures, in
\* the sentinel category directory and no longer at the top level.
C9_NoExtensionBucket ==
  (pc = "done" /\ NothingFailed) =>
    \A name \in TopAtScan :
      (IsFile(fsAtScan, Source(name)) /\ LastDot(name) = 0)
        => /\ Source(name) \notin DOMAIN fs
           /\ <<NoExt, name>> \in DOMAIN fs
           /\ fs[<<NoExt, name>>] = fsAtScan[Source(name)]

\* C10: when the target directory does not exist or cannot be listed, the run
\* fails as a whole: the only output is the outer error (ENOENT for a missing
\* directory), no entry is handled and the file system is unchanged.
C10_UnlistableDirectoryFailsWhole ==
  (pc # "start" /\ (~IsDir(fsAtScan, fullPath) \/ ~Listed)) =>
    /\ pc = "aborted"
    /\ fs = fsAtScan
    /\ files = <<>>
    /\ Len(ops) = 1
    /\ ops[1].op = "readdir"
    /\ log = <<Said(NoName, OUTER, ops[1].res)>>
    /\ (fullPath \notin DOMAIN fsAtScan => ops[1].res = "ENOENT")

C10_Witness ==
  /\ pc = "aborted"
  /\ fullPath \notin DOMAIN fs

(***************************************************************************)
(* C11..C17                                                                 *)
(***************************************************************************)
OutcomesOf(name) ==
  {k \in 1..Len(log) : log[k].file = name /\ log[k].out \in {MOVED, CAUGHT}}

\* C11: in a run whose listing succeeded, every listed entry has exactly one
\* recorded outcome (moved or failed) when the run has ended.
C11_CompleteAccounting ==
  (Ended /\ Listed) =>
    \A i \in 1..Len(files) : Cardinality(OutcomesOf(files[i])) = 1

\* C12: at most one rename is attempted per listed entry per run, and every
\* rename has as its source the path of a listed entry.
C12_AtMostOneMovePerEntry ==
  /\ \A i \in 1..Len(files) : Cardinality(CallsFor(files[i], "rename")) <= 1
  /\ \A k \in 1..Len(ops) :
       ops[k].op = "rename" =>
         /\ \E i \in 1..Len(files) : files[i] = ops[k].entry
         /\ ops[k].entry \in TopAtScan
         /\ ops[k].src = Source(ops[k].entry)

C12_Witness ==
  /\ pc = "done"
  /\ Len(files) >= 2
  /\ \A i \in 1..Len(files) : Cardinality(CallsFor(files[i], "rename")) = 1
  /\ FailedCalls("rename") # {}

MovedCount == Cardinality({k \in 1..Len(log) : log[k].out = MOVED})
FailedCount == Cardinality({k \in 1..Len(log) : log[k].out \in {CAUGHT, OUTER}})

\* C13: from the directory {a.txt, b.jpg, c.txt, notes} one run ends with
\* txt/{a.txt, c.txt}, jpg/{b.jpg} and _noext/{notes}, 4 entries reported as
\* moved and none as failed.
C13_EndToEnd ==
  (run = 1 /\ pc = "done" /\ fsAtScan = EndToEndDir /\ NothingFailed) =>
    /\ DOMAIN fs = {fullPath, <<txt>>, <<txt, aTxt>>, <<txt, cTxt>>,
                    <<jpg>>, <<jpg, bJpg>>, <<NoExt>>, <<NoExt, notes>>}
    /\ \A n \in {aTxt, bJpg, cTxt} : fs[<<extName(n), n>>] = fsAtScan[<<n>>]
    /\ fs[<<NoExt, notes>>] = fsAtScan[<<notes>>]
    /\ MovedCount = 4
    /\ FailedCount = 0

\* C14: every successful move of a file entry puts it at
\* <dir>/<category>/<name>: in a directory that is a direct child of the target
\* directory, under its own name.
C14_MovedIntoCategoryDir ==
  \A k \in 1..Len(ops) :
    (/\ ops[k].op = "rename"
     /\ ops[k].res = "OK"
     /\ IsFile(fsAtScan, Source(ops[k].entry)))
      => /\ Len(ops[k].dst) = 2
         /\ Base(ops[k].dst) = ops[k].entry
         /\ ops[k].dst \in DOMAIN fs
         /\ fs[ops[k].dst] = fsAtScan[Source(ops[k].entry)]

\* for entries with a non-empty extension the statement of C14 does hold
C14_HoldsWithExtension ==
  \A k \in 1..Len(ops) :
    (ops[k].op = "rename" /\ ops[k].res = "OK" /\ extName(ops[k].entry) # <<>>)
      => /\ ops[k].dst = <<extName(ops[k].entry), ops[k].entry>>
         /\ ops[k].dst \in DOMAIN fs
         /\ fs[ops[k].dst] = fsAtScan[Source(ops[k].entry)]

NewCalls == {k \in 1..Len(ops') : k > Len(ops)}
MadeDirs(f) == {p \in DOMAIN f : f[p].made}

\* every mkdir call follows, for the same entry and path, a check that
\* answered false; an entry whose check answered true has no mkdir call
C15_MkdirOnlyAfterFalseCheck ==
  /\ \A k \in 1..Len(ops) :
       ops[k].op = "mkdir" =>
         /\ k > 1
         /\ ops[k - 1] = Called("exists", ops[k].entry, ops[k].src, ops[k].src, "false")
  /\ \A k \in 1..Len(ops) :
       (ops[k].op = "exists" /\ ops[k].res = "true") => CallsFor(ops[k].entry, "mkdir") = {}

\* a step calls mkdir only for a path that does not exist before the step; a
\* step whose check finds the directory creates nothing and meets no error
\* other than the one the move itself gives
C15_StepCreatesOnlyWhenMissing ==
  \A k \in NewCalls :
    /\ ops'[k].op = "mkdir" => ops'[k].src \notin DOMAIN fs
    /\ (ops'[k].op = "exists" /\ IsDir(fs, ops'[k].src)) =>
         /\ ops'[k].res = "true"
         /\ MadeDirs(fs') = MadeDirs(fs)
         /\ {p \in DOMAIN fs' : IsDir(fs', p)} \subseteq {p \in DOMAIN fs : IsDir(fs, p)}
         /\ \A j \in NewCalls : ops'[j].op \in {"exists", "rename"}
         /\ \A j \in NewCalls : ops'[j].res # "EEXIST"

\* C15: ensuring the destination directory is idempotent: when the category
\* directory already exists (made earlier in the run or there before it),
\* handling the entry creates nothing and raises no error on its account;
\* mkdir is only ever called for a path that does not exist at the check.
C15_EnsureDirIdempotent ==
  [](C15_MkdirOnlyAfterFalseCheck) /\ [][C15_StepCreatesOnlyWhenMissing]_vars

C15_Witness ==
  /\ run = 1
  /\ pc = "done"
  /\ \E k \in 1..Len(ops) :
       ops[k].op = "exists" /\ ops[k].res = "true" /\ IsDir(fsAtScan, ops[k].src)
         /\ ops[k].src # fullPath
  /\ \E k \in 1..Len(ops) :
       ops[k].op = "exists" /\ ops[k].res = "true" /\ ops[k].src \in MadeDirs(fs)
  /\ CallsFor(aTxt, "mkdir") \cup CallsFor(cTxt, "mkdir") # {}

OpsOf(name) == {k \in 2..Len(ops) : ops[k].entry = name}

\* the calls of a handled entry: the check, then mkdir when the check
\* answered false, then the move
HandledInOrder(name) ==
  LET K == OpsOf(name)
  IN /\ K # {}
     /\ K = Min(K)..Max(K)
     /\ ops[Min(K)].op = "exists"
     /\ ops[Max(K)].op = "rename"
     /\ \/ Cardinality(K) = 2 /\ ops[Min(K)].res = "true"
        \/ /\ Cardinality(K) = 3
           /\ ops[Min(K)].res = "false"
           /\ ops[Min(K) + 1].op = "mkdir"
           /\ ops[Min(K) + 1].res = "OK"

\* the calls are grouped by entry, in listing order, and an entry is complete
\* before the next one starts
C16_CallsInListingOrder ==
  Listed =>
    /\ \A k, l \in 2..Len(ops) :
         k < l => PositionOf(ops[k].entry) <= PositionOf(ops[l].entry)
    /\ \A i \in 1..Len(files) :
         \/ i < idx /\ HandledInOrder(files[i])
         \/ i = idx /\ pc = "aborted" /\ OpsOf(files[i]) # {}
         \/ i >= idx /\ pc # "aborted" /\ OpsOf(files[i]) = {}
         \/ i > idx /\ OpsOf(files[i]) = {}

\* the move of an entry executes in the state its check observed, changed
\* only by the mkdir of the same entry
C16_MoveInObservedState ==
  \A k \in NewCalls :
    ops'[k].op = "exists" =>
      /\ (ops'[k].res = "true") = existsSync(fs, ops'[k].src)
      /\ \A j \in NewCalls :
           ops'[j].op = "rename" =>
             LET seen == IF ops'[k].res = "true" THEN fs ELSE MkdirResult(fs, ops'[k].src)
             IN fs' = IF ops'[j].res = "OK"
                      THEN RenameResult(seen, ops'[j].src, ops'[j].dst)
                      ELSE seen

\* C16: entries are handled one at a time in listing order: the check, the
\* optional mkdir and the move of an entry are complete before any call for
\* the next entry, and the move executes in the state the check observed
\* (apart from the mkdir of the same entry).
C16_OneAtATime == [](C16_CallsInListingOrder) /\ [][C16_MoveInObservedState]_vars

C16_Witness ==
  /\ pc = "done"
  /\ Len(files) = 3
  /\ \E i \in 1..Len(files) : Cardinality(OpsOf(files[i])) = 3
  /\ \E i \in 1..Len(files) : Cardinality(OpsOf(files[i])) = 2
  /\ RealMoves # {}

\* the list handled by a run is the listing made at its start, and only names
\* of that listing are handled
C17_SnapshotOnly ==
  /\ Listed => files \in Listings(TopAtScan)
  /\ \A k \in 2..Len(ops) : ops[k].entry \in TopAtScan
  /\ idx <= Len(files) + 1

C17_ListFixedDuringRun == (pc = "loop" /\ pc' # "start") => files' = files

\* C17: every run ends after handling the finite list enumerated once at its
\* start; directories created during the run are not added to the list and are
\* not handled as entries in the same run.
C17_TerminatesOverSnapshot ==
  /\ [](C17_SnapshotOnly)
  /\ [][C17_ListFixedDuringRun]_vars
  /\ (pc = "start" ~> Ended)

C17_Witness ==
  /\ pc = "done"
  /\ run = 1
  /\ \E p \in MadeDirs(fs) : Len(p) = 1 /\ \A i \in 1..Len(files) : files[i] # Base(p)
  /\ Len(files) = 4

(***************************************************************************)
(* C18..C20: the Express app                                                *)
(***************************************************************************)
HelloSnow == <<"hello ", "snow", "!">>
HelloUndefined == <<"hello ", "undefined", "!">>
PosOf(name) ==
  IF name = "final" THEN FinalHandler
  ELSE CHOOSE i \in 1..Len(Stack) : Stack[i].name = name
InDefinitionOrder(ran) ==
  \A i, j \in 1..Len(ran) : i < j => PosOf(ran[i]) < PosOf(ran[j])
ResponsesTo(i) == {k \in 1..Len(sent) : sent[k].id = i}

\* C18: the layers run in the order they are defined and before the route
\* handler (logger, then the middleware that sets req.user = 'snow', then the
\* route), and GET /about always responds 'hello snow!'.
C18_AboutAlwaysHelloSnow ==
  \A k \in 1..Len(sent) :
    (sent[k].method = "GET" /\ sent[k].url = "/about")
      => sent[k].status = 200 /\ sent[k].body = HelloSnow

\* the order of C18 does hold: the logger runs first, then the middleware that
\* sets req.user = 'snow', then the route; GET /about responds 'hello snow!'
\* whenever its route handler runs and never 'hello undefined!'; its only
\* other response is the 500 Express sends when the logger throws.
C18_MiddlewareOrder ==
  /\ \A k \in 1..Len(sent) :
       LET r == sent[k]
       IN /\ r.ran[1] = "logger"
          /\ InDefinitionOrder(r.ran)
          /\ r.body # HelloUndefined
          /\ r.status = 200 => \E h \in {"about", "root"} : r.ran = <<"logger", "decorate", h>>
          /\ (r.method = "GET" /\ r.url = "/about") =>
               \/ r.status = 200 /\ r.body = HelloSnow /\ r.ran = <<"logger", "decorate", "about">>
               \/ r.status = 500 /\ r.ran = <<"logger", "final">>
  /\ (AtLayer("about") \/ AtLayer("root")) =>
       /\ req.user = "snow"
       /\ req.ran = <<"logger", "decorate">>
  /\ (req.at # 0 /\ req.ran = <<>>) => AtLayer("logger")

IsNew(line) == line.time # 0
IsOld(line) == line.time = 0
Answered(r) == r.status # 500
LineOf(r) == [time |-> r.id, method |-> r.method, url |-> r.url]
LinesOf(rs) == [k \in 1..Len(rs) |-> LineOf(rs[k])]
PastLogger == req.at # 0 /\ req.ran # <<>> /\ req.err = "OK"

\* every request that reached the logger has exactly one line in logs.txt
C19_OneLinePerRequest ==
  \A k \in 1..Len(sent) :
    Cardinality({i \in 1..Len(logsTxt) : logsTxt[i] = LineOf(sent[k])}) = 1

\* logs.txt is its earlier content followed by one line for each request
\* whose append did not throw, in arrival order
C19_LinesAreTheLoggedRequests ==
  /\ logsTxt = SelectSeq(logsTxt, IsOld) \o SelectSeq(logsTxt, IsNew)
  /\ SelectSeq(logsTxt, IsNew) =
       LinesOf(SelectSeq(sent, Answered)) \o (IF PastLogger THEN <<LogLine(req)>> ELSE <<>>)
  /\ (AtLayer("about") \/ AtLayer("root")) => logsTxt[Len(logsTxt)] = LogLine(req)

\* a step leaves logs.txt alone or adds one line at its end
C19_StepAppends ==
  /\ Len(logsTxt') \in {Len(logsTxt), Len(logsTxt) + 1}
  /\ SubSeq(logsTxt', 1, Len(logsTxt)) = logsTxt

\* C19: the request log is append-only: every request whose appendFileSync
\* succeeds adds exactly one line (time - method - url) to logs.txt before its
\* route handler runs, a request whose append throws adds none and gets a 500,
\* and earlier lines are never changed or removed: the file is its previous
\* content followed by those lines in arrival order.
C19_LogAppendOnly == [](C19_LinesAreTheLoggedRequests) /\ [][C19_StepAppends]_vars

C19_Witness ==
  /\ req.at = 0
  /\ arrived = 3
  /\ Len(logsTxt) = 3
  /\ logsTxt[1] = OldLine
  /\ \E k \in 1..Len(sent) : sent[k].status = 500

\* no request is left without a layer to run, no layer runs twice for a
\* request, and no request gets two responses
C20_NothingHangs ==
  /\ req.at # Hung
  /\ req.at # 0 => ENABLED Handle
  /\ InDefinitionOrder(req.ran)
  /\ \A i \in 1..arrived : Cardinality(ResponsesTo(i)) <= 1
  /\ req.at = 0 => \A i \in 1..arrived : Cardinality(ResponsesTo(i)) = 1

\* C20: no request hangs in the chain: every middleware that sends no
\* response calls next() once, so every request (GET / and GET /about among
\* them) eventually gets exactly one response.
C20_EveryRequestAnswered ==
  /\ [](C20_NothingHangs)
  /\ \A i \in 1..MaxRequests :
       (arrived >= i) ~> (Cardinality(ResponsesTo(i)) = 1)

C20_Witness ==
  /\ req.at = 0
  /\ arrived >= 2
  /\ \E k \in 1..Len(sent) :
       sent[k].method = "GET" /\ sent[k].url = "/" /\ sent[k].status = 200
  /\ \E k \in 1..Len(sent) :
       sent[k].method = "GET" /\ sent[k].url = "/about" /\ sent[k].status = 200

(***************************************************************************)
(* C22..C26: the organizer as it is                                         *)
(***************************************************************************)
Handled == {files[i] : i \in 1..Min({idx - 1, Len(files)})}
TheCall(name, op) == ops[CHOOSE k \in CallsFor(name, op) : TRUE]

\* an entry with an empty extension is checked against the target directory
\* itself and renamed onto its own path, without any mkdir
C22_SelfRename(name) ==
  /\ CategoryDir(name) = fullPath
  /\ CallsFor(name, "mkdir") = {}
  /\ Cardinality(CallsFor(name, "exists")) = 1
  /\ TheCall(name, "exists") = Called("exists", name, fullPath, fullPath, "true")
  /\ Cardinality(CallsFor(name, "rename")) = 1
  /\ TheCall(name, "rename").src = Source(name)
  /\ TheCall(name, "rename").dst = Source(name)
  /\ Reported(name, FOLDER)

\* every handled entry with an empty extension is renamed onto itself and
\* logged as moved
C22_EmptyExtensionLoggedMoved ==
  \A name \in Handled :
    extName(name) = <<>> =>
      /\ C22_SelfRename(name)
      /\ TheCall(name, "rename").res = "OK"
      /\ Reported(name, MOVED)

\* every handled entry with an empty extension is renamed onto itself; it is
\* logged as moved unless the environment made the call fail, and then the
\* error is caught and logged
C22_EmptyExtensionSelfRenamed ==
  \A name \in Handled :
    extName(name) = <<>> =>
      /\ C22_SelfRename(name)
      /\ \/ TheCall(name, "rename").res = "OK" /\ Reported(name, MOVED)
         \/ /\ TheCall(name, "rename").res = "EACCES"
            /\ Reported(name, CAUGHT)
            /\ ~Reported(name, MOVED)

\* the step that handles an entry with an empty extension leaves the file
\* system as it is and goes on with the next entry
C22_StepChangesNothing ==
  (pc = "loop" /\ idx <= Len(files) /\ extName(files[idx]) = <<>> /\ idx' # idx) =>
    /\ fs' = fs
    /\ pc' = "loop"
    /\ idx' = idx + 1

\* C22: for a top-level entry whose name has an empty extension (no dot, a
\* leading dot only, or a trailing dot) the category directory is the target
\* directory itself: the 'folder exists' branch is taken, the entry is renamed
\* onto its own path, no directory is created, the file system is unchanged by
\* the entry, and it is logged as 'File moved successfully!' unless renameSync
\* is made to throw by the environment, in which case the error is caught.
C22_EmptyExtensionIsNoOp ==
  [](C22_EmptyExtensionSelfRenamed) /\ [][C22_StepChangesNothing]_vars

C22_Witness ==
  /\ pc = "done"
  /\ run = 1
  /\ Handled = {README, dotEnv, cDot}
  /\ \A name \in Handled : Reported(name, MOVED)
  /\ fs = fsAtScan

NewPaths == DOMAIN fs \ DOMAIN fsAtScan
ScannedWithExt == {n \in TopAtScan : extName(n) # <<>>}

\* what a run creates: directories that are direct children of the target
\* directory, named by the extension of a scanned entry, and scanned entries
\* (with what is under them) at <dir>/<ext>/<name>
C23_CreatesOnlyCategoryDirs ==
  Listed =>
    /\ \A p \in NewPaths :
         \/ Len(p) = 1 /\ fs[p].made /\ \E n \in ScannedWithExt : p = CategoryDir(n)
         \/ \E n \in ScannedWithExt :
              /\ IsPrefix(Dest(n), p)
              /\ fs[p] = fsAtScan[Source(n) \o SubSeq(p, 3, Len(p))]
    /\ \A p \in DOMAIN fs : (Len(p) = 1 /\ IsFile(fs, p)) => IsFile(fsAtScan, p)
    /\ \A p \in DOMAIN fsAtScan \ DOMAIN fs :
         \E n \in ScannedWithExt : IsPrefix(Source(n), p) \/ IsPrefix(Dest(n), p)

\* C23: the only changes of a run are the creation of category directories
\* directly under the target directory and the relocation of scanned top-level
\* entries to <dir>/<ext>/<name>; no new file appears at the top level and
\* whatever was inside a subdirectory before the run is still where it was.
C23_FrameOfOneRun ==
  /\ C23_CreatesOnlyCategoryDirs
  /\ Listed => \A p \in DOMAIN fsAtScan : Len(p) >= 2 => (p \in DOMAIN fs /\ fs[p] = fsAtScan[p])

FileInPlaceOfFolder(name) ==
  CategoryDir(name) # fullPath /\ IsFile(fsAtScan, CategoryDir(name))

\* what C24 says of the entry itself does hold: the 'folder exists' branch is
\* taken, nothing is created, renameSync throws ENOTDIR and is caught, and the
\* entry and the file named <ext> stay as they were
C24_HoldsForTheEntry ==
  \A name \in Handled :
    FileInPlaceOfFolder(name) =>
      /\ CallsFor(name, "mkdir") = {}
      /\ TheCall(name, "exists").res = "true"
      /\ TheCall(name, "rename").res = "ENOTDIR"
      /\ Reported(name, CAUGHT)
      /\ ~Reported(name, MOVED)
      /\ Kept(Source(name))
      /\ Kept(CategoryDir(name))

\* C24: when <dir>/<ext> is a regular file, an entry with extension <ext>
\* takes the 'folder exists' branch without creating a directory, its rename
\* fails and is caught, the entry and the file named <ext> stay as they were,
\* and the entries after it in the listing are still processed.
C24_FileInPlaceOfFolder ==
  /\ C24_HoldsForTheEntry
  /\ Ended =>
       \A name \in Handled :
         FileInPlaceOfFolder(name) =>
           \A j \in (PositionOf(name) + 1)..Len(files) : Processed(files[j])

NewDirs == {p \in NewPaths : fs[p].made}

\* C25: after a run in which no mkdir and no rename failed, no scanned entry
\* with a non-empty extension is left at the top level: each is at
\* <dir>/<ext>/<name>; and the directories the run created are exactly the
\* extensions (case-sensitive) of scanned entries whose directory was missing.
C25_CompleteWhenNothingFails ==
  (pc = "done" /\ NothingFailed) =>
    /\ \A n \in ScannedWithExt :
         /\ Source(n) \notin DOMAIN fs
         /\ Dest(n) \in DOMAIN fs
         /\ fs[Dest(n)] = fsAtScan[Source(n)]
    /\ NewDirs = {CategoryDir(n) : n \in ScannedWithExt} \ DOMAIN fsAtScan

C25_Witness ==
  /\ pc = "done"
  /\ NothingFailed
  /\ run = 1
  /\ {aTxt, bTXT} \subseteq ScannedWithExt
  /\ Cardinality(NewDirs) = 2

\* 'create <dir>/<ext> if absent'
EnsureDir(f, p) ==
  IF p \in DOMAIN f THEN f
  ELSE [q \in DOMAIN f \cup {p} |-> IF q = p THEN MadeNode(p) ELSE f[q]]

\* 'create <dir>/<ext> if absent; rename <dir>/<name> to <dir>/<ext>/<name>,
\* catching a rename error'
EnsureThenMove(f, file, fault) ==
  LET src == Append(fullPath, file)
      dir == IF extName(file) = <<>> THEN fullPath ELSE Append(fullPath, extName(file))
      dst == Append(dir, file)
      g == EnsureDir(f, dir)
      err == Outcome(RenameError(g, src, dst), fault)
  IN [fs |-> IF err = "OK" THEN RenameResult(g, src, dst) ELSE g,
      out |-> Said(file, IF err = "OK" THEN MOVED ELSE CAUGHT, err)]

\* a step that handles an entry without mkdirSync throwing ends in the state
\* and with the outcome of the single step
C26_StepIsEnsureThenMove ==
  (pc = "loop" /\ idx' = idx + 1) =>
    LET one == EnsureThenMove(fs, files[idx], faults' # faults)
    IN /\ fs' = one.fs
       /\ log'[Len(log')] = one.out
       /\ Cardinality({k \in 1..Len(log') : k > Len(log) /\ log'[k].out \in {MOVED, CAUGHT}}) = 1

\* C26: whenever directory creation succeeds, handling an entry through the
\* existsSync if/else gives the same file system and the same move outcome as
\* the single step 'create <dir>/<ext> if absent, then rename, catching a
\* rename error'.
C26_BranchesAreEnsureThenMove == [][C26_StepIsEnsureThenMove]_vars

C26_Witness ==
  /\ pc = "done"
  /\ \E k \in 1..Len(ops) : ops[k].op = "exists" /\ ops[k].res = "true" /\ ops[k].src # fullPath
  /\ \E k \in 1..Len(ops) : ops[k].op = "mkdir"
  /\ \E k \in FailedCalls("rename") : ops[k].res = "EACCES"
  /\ RealMoves # {}

(***************************************************************************)
(* C21: the React counter                                                   *)
(***************************************************************************)
\* C21: the displayed value starts at 0 and every click adds exactly 1 to the
\* state, so once the clicks handled so far are rendered the displayed value
\* is their number, also when several clicks were handled before a render.
C21_DisplayedIsNumberOfClicks ==
  /\ screen # <<>> => screen[1] = 0
  /\ (screen # <<>> /\ queue = <<>>) => (hook = clicks /\ screen[Len(screen)] = clicks)

\* what does hold: each click queues the rendered value plus one, so a render
\* adds one to the displayed value however many clicks it takes in
C21_RenderAddsOne ==
  /\ \A i \in 1..Len(queue) : queue[i] = value + 1
  /\ \A i \in 1..Len(screen) : screen[i] = i - 1
  /\ hook = value
  /\ value <= clicks

(***************************************************************************)
(* C27, C28: the note-taking API                                            *)
(***************************************************************************)
RepliesTo(i) == {k \in 1..Len(replies) : replies[k].id = i}
FailureBodies ==
  {<<"error in adding a file">>, <<"error in reading a file">>, <<"error in deleting a file">>}

\* a request has no response before its callback has run and one after it: the
\* 500 alone when the fs call failed, the success response alone when it did not
C27_OneReplyPerCall ==
  \A i \in 1..Len(calls) :
    /\ Cardinality(RepliesTo(i)) = (IF calls[i].stage = "sent" THEN 1 ELSE 0)
    /\ \A k \in RepliesTo(i) :
         /\ (calls[i].err # "OK") <=> (replies[k].status = 500)
         /\ (calls[i].err = "OK") <=> (replies[k].status = 200)
         /\ (replies[k].status = 500) <=> (replies[k].body \in FailureBodies)

\* C27: every request to POST /notes/add, GET /notes/:title or
\* DELETE /notes/:title gets exactly one response, whether its fs call succeeds
\* or fails: on error the status-500 response only, never followed by the
\* success response, however the requests overlap.
C27_ExactlyOneResponse ==
  /\ [](C27_OneReplyPerCall)
  /\ \A i \in 1..MaxNotes : (Len(calls) >= i) ~> (Cardinality(RepliesTo(i)) = 1)

C27_Witness ==
  /\ overlap
  /\ Len(calls) = 3
  /\ Unanswered = {}
  /\ {calls[i].route : i \in 1..Len(calls)} = Routes
  /\ \E k \in 1..Len(replies) : replies[k].status = 500
  /\ \E k \in 1..Len(replies) : replies[k].status = 200
  /\ \E k \in 1..Len(replies) : replies[k].id # k

RouteOf(k) == calls[replies[k].id].route
TitleOf(k) == calls[replies[k].id].title
IsPost(k) == RouteOf(k) = "POST /notes/add"
IsGetSnow(k) == RouteOf(k) = "GET /notes/:title" /\ TitleOf(k) = snowTxt
IsDeleteSnow(k) == RouteOf(k) = "DELETE /notes/:title" /\ TitleOf(k) = snowTxt

\* a request that may have changed snow.txt: any POST, a DELETE that succeeded
Changing(k) == IsPost(k) \/ (IsDeleteSnow(k) /\ replies[k].status = 200)
LastChange(k) == Max({0} \cup {j \in 1..(k - 1) : Changing(j)})
AfterPost(k) ==
  LastChange(k) > 0 /\ IsPost(LastChange(k)) /\ replies[LastChange(k)].status = 200
AfterDelete(k) == LastChange(k) > 0 /\ IsDeleteSnow(LastChange(k))
HasSnowContent(body) == \E i \in 1..Len(body) : body[i] = "i am snow"

\* after a successful DELETE of snow.txt a GET and a DELETE of it answer 500
\* until the next POST; after successful POSTs, however many, the file holds
\* 'i am snow' once
C28_DeleteAndRepeat ==
  /\ \A k \in 1..Len(replies) :
       (AfterDelete(k) /\ (IsGetSnow(k) \/ IsDeleteSnow(k))) => replies[k].status = 500
  /\ (Unanswered = {} /\ AfterPost(Len(replies) + 1)) =>
       (snowTxt \in DOMAIN disk /\ disk[snowTxt] = Snow)

\* after a successful POST every GET of snow.txt answers with the content
C28_GetAlwaysAnswersContent ==
  ~overlap =>
    /\ C28_DeleteAndRepeat
    /\ \A k \in 1..Len(replies) :
         (AfterPost(k) /\ IsGetSnow(k)) =>
           (replies[k].status = 200 /\ HasSnowContent(replies[k].body))

\* C28: with requests one after the other: after a successful POST /notes/add
\* a GET /notes/snow.txt whose read succeeds answers 200 with the title and the
\* content 'i am snow' (and answers 500 when the read itself fails); after a
\* successful DELETE /notes/snow.txt a GET and a second DELETE of it answer 500
\* until the next POST; repeating the POST leaves the content of a single POST.
C28_Sequencing ==
  ~overlap =>
    /\ C28_DeleteAndRepeat
    /\ \A k \in 1..Len(replies) :
         (AfterPost(k) /\ IsGetSnow(k)) =>
           \/ /\ replies[k].status = 200
              /\ replies[k].body = <<"title", snowTxt, "content", "i am snow">>
           \/ /\ replies[k].status = 500
              /\ calls[replies[k].id].err = "EACCES"

C28_Witness ==
  /\ ~overlap
  /\ Len(replies) = 3
  /\ IsPost(1) /\ replies[1].status = 200
  /\ IsPost(2) /\ replies[2].status = 200
  /\ IsGetSnow(3) /\ replies[3].status = 200

(***************************************************************************)
(* C29, C30: the dummy-data generator                                       *)
(***************************************************************************)
AllRendered == gens # <<>> /\ \A i \in 1..Len(gens) : gens[i].at = "rendered"

\* C29: whatever the collection held before, when GET /generate requests made
\* one after the other have completed the collection holds exactly 6
\* documents, the i-th with the i-th name, city and language of the lists and
\* a salary in 10000..100000.
C29_SixDocumentsAfterRequest ==
  (AllRendered /\ ~together) =>
    /\ Len(employees) = 6
    /\ \A i \in 1..Len(employees) :
         /\ employees[i].name = names[i]
         /\ employees[i].city = cities[i]
         /\ employees[i].language = languages[i]
         /\ employees[i].salary \in 10000..100000
         /\ employees[i].isManager \in BOOLEAN

C29_Witness ==
  /\ AllRendered
  /\ ~together
  /\ Len(gens) = 2
  /\ \E i, j \in 1..Len(employees) : employees[i].salary # employees[j].salary

\* C30: when any number of overlapping GET /generate requests have all
\* completed, the collection holds exactly 6 documents.
C30_SixDocumentsAfterOverlap ==
  AllRendered => Len(employees) = 6
====
